---- MODULE Spec2Model ----
(***************************************************************************)
(* iperf3_statuspage: the single-slot result cache LAST_RESULT behind a    *)
(* std::sync::Mutex, its accessors, the /iperf3 handler, the refresh cycle *)
(* run_iperf3_and_cache_with_runner and the scheduler loop                 *)
(* spawn_iperf3_scheduler.                                                 *)
(***************************************************************************)
EXTENDS Integers, Sequences, FiniteSets, TLC

(***************************************************************************)
(* Bounds of the model.                                                    *)
(***************************************************************************)
\* Width, in bits, of the unsigned word that stands for u64 (2^64 does not
\* fit TLC's integers; the arithmetic is kept modulo 2^WordBits).
WordBits == 10
\* Cycles the scheduler may start.
MaxCycles == 2
\* Calls the concurrent callers may make altogether.
MaxCalls == 3
\* Steps of the clock.
MaxClock == 1
\* Cycles and clock steps when the scheduler task is followed on its own.
MaxTaskCycles == 4
MaxTaskClock == 2

(***************************************************************************)
(* Program constants.                                                      *)
(***************************************************************************)
\* unwrap_or(10): the default number of minutes.
DefaultMinutes == 10
\* Duration::from_secs(minutes * 60)
SecsPerMinute == 60

\* Seconds the clock advances in one step of the model: one minute.
ClockStep == SecsPerMinute

RECURSIVE Pow2(_)
Pow2(n) == IF n = 0 THEN 1 ELSE 2 * Pow2(n - 1)

\* u64::MAX + 1 at the model's width.
Modulus == Pow2(WordBits)


(***************************************************************************)
(* Reports, raw runner output, and the two conversions between them.       *)
(***************************************************************************)
\* The three fields of Iperf3Report; start stands for
\* start.timestamp.timesecs, intervals for the length of the vector, end
\* for end.sum_sent.bytes.
ReportKeys == {"start", "intervals", "end"}

Report(s, i, e) == [start |-> s, intervals |-> i, end |-> e]

\* dummy_result() of the tests and benches: every number is 0.
DummyReport == Report(0, 0, 0)

\* A raw text is either not JSON at all, or a JSON object with some keys.
RawJson(obj) == [json |-> TRUE, obj |-> obj]
RawGarbage == [json |-> FALSE, obj |-> [k \in {} |-> 0]]

\* The texts the external process may print.
RawTexts ==
    { RawJson([start |-> 1000, intervals |-> 1, end |-> 7]),
      RawJson([start |-> 2000, intervals |-> 2, end |-> 9]),
      RawJson([start |-> 1000, intervals |-> 1]),
      RawGarbage }

\* Result<T, E> and Option<T> as records.
Ok(v) == [ok |-> TRUE, val |-> v]
Err(m) == [ok |-> FALSE, msg |-> m]

\* serde_json::from_str::<Iperf3Report>: every field of the struct must be
\* present and every unsigned field non-negative; unknown keys are ignored.
ParseReport(raw) ==
    IF raw.json
       /\ ReportKeys \subseteq DOMAIN raw.obj
       /\ \A k \in ReportKeys : raw.obj[k] >= 0
    THEN Ok(Report(raw.obj["start"], raw.obj["intervals"], raw.obj["end"]))
    ELSE Err("Failed to parse iperf3 JSON")

\* HttpResponse::Ok().json(cached_result): the derived Serialize writes the
\* three fields under their names.
SerializeReport(r) ==
    RawJson([start |-> r.start, intervals |-> r.intervals, end |-> r.end])

\* The reports a caller can be handed whole: those the runner's texts parse
\* to and those the test hook is given.
SetArgs == {DummyReport, Report(5, 5, 5)}
ParsedReports == {ParseReport(t).val : t \in {x \in RawTexts : ParseReport(x).ok}}
WholeReports == ParsedReports \cup SetArgs

(***************************************************************************)
(* INTERVAL_MINUTES and min_frequency_duration.                            *)
(***************************************************************************)
Digits == <<"0", "1", "2", "3", "4", "5", "6", "7", "8", "9">>

DigitValue(c) == (CHOOSE i \in 1..10 : Digits[i] = c) - 1

IsDigit(c) == \E i \in 1..10 : Digits[i] = c

\* The decimal text of a natural number.
RECURSIVE DecimalText(_)
DecimalText(n) ==
    IF n < 10 THEN <<Digits[n + 1]>>
    ELSE Append(DecimalText(n \div 10), Digits[(n % 10) + 1])

\* str::parse::<u64>: an optional leading "+", then one or more digits; fails
\* on an empty text, on any other character and when the value leaves the
\* word. acc is the value read so far; -1 stands for the failure.
RECURSIVE ParseDigits(_, _)
ParseDigits(s, acc) ==
    IF s = <<>> THEN acc
    ELSE IF ~IsDigit(Head(s)) THEN -1
    ELSE LET v == acc * 10 + DigitValue(Head(s))
         IN IF v >= Modulus THEN -1 ELSE ParseDigits(Tail(s), v)

ParseU64(s) ==
    LET body == IF s # <<>> /\ Head(s) = "+" THEN Tail(s) ELSE s
        v == IF body = <<>> THEN -1 ELSE ParseDigits(body, 0)
    IN IF v < 0 THEN Err("invalid digit") ELSE Ok(v)

\* env::var("INTERVAL_MINUTES"): absent, or some text.
EnvAbsent == [set |-> FALSE, text |-> <<>>]
EnvText(s) == [set |-> TRUE, text |-> s]

EnvValues ==
    { EnvAbsent,
      EnvText(<<"a", "b", "c">>),
      EnvText(<<"-", "1">>),
      EnvText(DecimalText(0)),
      EnvText(DecimalText(1)),
      EnvText(DecimalText(Modulus \div 4)),
      EnvText(DecimalText((Modulus \div 4) + 1)),
      EnvText(DecimalText(Modulus)) }

\* The environment once the scheduler has read it.
EnvRead == [var |-> EnvAbsent, checks |-> FALSE]

\* .ok().and_then(|s| s.parse::<u64>().ok()).unwrap_or(10)
Minutes(e) ==
    IF e.set /\ ParseU64(e.text).ok THEN ParseU64(e.text).val ELSE DefaultMinutes

\* minutes * 60 on u64: with overflow checks (a debug build) the
\* multiplication panics when the product leaves the word; without them (a
\* release build) it wraps.
min_frequency_duration(e, checks) ==
    LET product == Minutes(e) * SecsPerMinute
    IN IF product >= Modulus /\ checks
       THEN Err("attempt to multiply with overflow")
       ELSE Ok(product % Modulus)

(***************************************************************************)
(* State.                                                                  *)
(***************************************************************************)
VARIABLES
    cache,      \* LAST_RESULT's protected value: Option<(Iperf3Report, Instant)>
    lock,       \* the holder of LAST_RESULT's mutex, or NoHolder
    poisoned,   \* the mutex's poison flag
    now,        \* the monotonic clock, in seconds
    spc,        \* where the scheduler task is
    env,        \* INTERVAL_MINUTES and the build's overflow checks, until read
    interval,   \* spawn_iperf3_scheduler's interval, in seconds
    deadline,   \* the ticker's next deadline
    cycles,     \* refresh cycles started
    cyc,        \* the running cycle: its path, the parsed data, its store writes
    cpc,        \* where each caller is
    call,       \* each caller's operation and argument
    tmp,        \* each caller's partly read or partly written value
    ret,        \* what each caller's last call returned
    calls,      \* calls made
    lastWrite,  \* history: the value of the last completed store write
    lastParsed, \* history: the report of the last cycle that ran and parsed
    hookUsed,   \* history: the set or clear hook has been called
    clearUsed,  \* history: clear_last_result_for_test has been called
    tpc,        \* where each test of tests/api_tests.rs is in its body
    serial,     \* the test holding serial_test's lock, or NoHolder
    verdict     \* each test's outcome so far

vars == <<cache, lock, poisoned, now, spc, env, interval, deadline, cycles, cyc,
          cpc, call, tmp, ret, calls, lastWrite, lastParsed, hookUsed, clearUsed,
          tpc, serial, verdict>>

schedVars == <<spc, env, interval, deadline, cycles, cyc, lastParsed>>
callerVars == <<cpc, call, tmp, ret, calls, hookUsed, clearUsed>>
testVars == <<tpc, serial, verdict>>

Sched == "sched"
\* An HTTP worker or other reader, and a thread that calls the test hooks.
Reader == "reader"
Hook == "hook"
Callers == {Reader, Hook}
NoHolder == "none"

\* The three tests of tests/api_tests.rs that use the global cache, each run
\* by the test harness on a thread of its own.
NoCacheTest == "iperf3_returns_service_unavailable_when_no_cache"
CachedTest == "iperf3_returns_cached_result"
HelpersTest == "test_set_get_clear_last_result_for_test"
Tests == {NoCacheTest, CachedTest, HelpersTest}

\* Option<(Iperf3Report, Instant)>: None has no payload.
CacheNone == [some |-> FALSE, report |-> DummyReport, at |-> 0]
CacheSome(r, t) == [some |-> TRUE, report |-> r, at |-> t]

\* *cache = Some((report, instant)) moves the new value into the slot piece by
\* piece. First the discriminant and the report's start and intervals...
StoreFirst(old, new) ==
    [old EXCEPT !.some = TRUE,
                !.report = Report(new.report.start, new.report.intervals,
                                  old.report.end)]

\* A second half that leaves the old instant in place.
StoreSecondKeepsInstant(cur, new) ==
    [cur EXCEPT !.report = Report(cur.report.start, cur.report.intervals,
                                  new.report.end)]

\* ... then the report's end and the instant.
StoreSecond(cur, new) ==
    [cur EXCEPT !.report = Report(cur.report.start, cur.report.intervals,
                                  new.report.end),
                !.at = new.at]

\* History: a completed write, the operation that made it, the one that made
\* the write before, and the thread that made it.
Written(v, who, before, thread) ==
    [some |-> v.some, report |-> v.report, at |-> v.at, by |-> who, prev |-> before,
     thread |-> thread]

\* The operations a caller may invoke.
ReadOps == {"get_last_result", "get_cached_iperf3_result", "iperf3"}
WriteOps == {"set_last_result_for_test", "clear_last_result_for_test"}

NoCall == [op |-> "none", arg |-> DummyReport]
\* No function returns the capture instant: at is NoInstant in every value a
\* call returns. A cycle that has not returned has no end time either.
NoInstant == -1

\* Before the runner has returned there is no process outcome and no result.
NoProc == [spawned |-> FALSE, success |-> FALSE, stdout |-> RawGarbage]
NoResult == Err("not called")

\* The cycle's locals (data, at) live until the function returns; the
\* outcome of the external process (proc) and the runner's result (res) until
\* the result has been matched. History: its path, its store writes and log
\* lines, the clock when it started and when it returned, and whether every
\* cycle so far took less than one interval.
NoCycle ==
    [path |-> "idle", data |-> DummyReport, at |-> 0, writes |-> 0, logged |-> 0,
     started |-> 0, ended |-> NoInstant, allShort |-> TRUE,
     proc |-> NoProc, res |-> NoResult]

\* What a call returns.

RetPending == [kind |-> "pending", report |-> DummyReport, body |-> RawGarbage, status |-> 0, at |-> NoInstant]
RetPanic == [kind |-> "panic", report |-> DummyReport, body |-> RawGarbage, status |-> 0, at |-> NoInstant]
RetUnit == [kind |-> "unit", report |-> DummyReport, body |-> RawGarbage, status |-> 0, at |-> NoInstant]
RetNone == [kind |-> "None", report |-> DummyReport, body |-> RawGarbage, status |-> 0, at |-> NoInstant]
RetSome(r) == [kind |-> "Some", report |-> r, body |-> RawGarbage, status |-> 0, at |-> NoInstant]
RetOk(r) == [kind |-> "Ok", report |-> r, body |-> RawGarbage, status |-> 0, at |-> NoInstant]
RetErr == [kind |-> "Err", report |-> DummyReport, body |-> RawGarbage, status |-> 0, at |-> NoInstant]
RetHttp(code, b) == [kind |-> "http", report |-> DummyReport, body |-> b, status |-> code, at |-> NoInstant]

\* The body of the 503 answer and the message of Err: "Iperf3 result not
\* available yet." is a text that is not a report.
NotAvailableYet == RawGarbage

HttpOk == 200
HttpServiceUnavailable == 503

\* The state after construction, for the given threads calling into the
\* library and the given tests to run.
InitOf(threads, tests) ==
    /\ cache = CacheNone
    /\ lock = NoHolder
    /\ poisoned = FALSE
    /\ now = 0
    /\ spc = "start"
    /\ env \in [var : EnvValues, checks : BOOLEAN]
    /\ interval = 0
    /\ deadline = 0
    /\ cycles = 0
    /\ cyc = NoCycle
    /\ cpc = [c \in threads |-> "idle"]
    /\ call = [c \in threads |-> NoCall]
    /\ tmp = [c \in threads |-> CacheNone]
    /\ ret = [c \in threads |-> RetPending]
    /\ calls = 0
    /\ lastWrite = Written(CacheNone, "init", "init", NoHolder)
    /\ lastParsed = CacheNone
    /\ hookUsed = FALSE
    /\ clearUsed = FALSE
    /\ tpc = [t \in tests |-> 0]
    /\ serial = NoHolder
    /\ verdict = [t \in tests |-> "pending"]

\* The running program: the scheduler task, a reader and a caller of the
\* hooks; no test is run.
Init == InitOf(Callers, {})

(***************************************************************************)
(* The clock.                                                              *)
(***************************************************************************)
\* A clock that is not read: the instant already in the slot is kept.
InstantOfSlot == cache.at

\* Instant::now(): the monotonic clock's present reading.
InstantNow == now

(***************************************************************************)
(* The mutex.                                                              *)
(***************************************************************************)
\* A mutex that excludes nobody.
LockNeverBlocks == TRUE

\* LAST_RESULT.lock(): blocks while another thread holds the mutex.
LockAvailable == lock = NoHolder

(***************************************************************************)
(* The callers: get_last_result, get_cached_iperf3_result, the /iperf3     *)
(* handler, set_last_result_for_test, clear_last_result_for_test.          *)
(***************************************************************************)
\* The functions each caller invokes.
OpsOf(c) == IF c = Reader THEN ReadOps ELSE WriteOps

\* A caller enters one of the five functions.
Call(c) ==
    /\ cpc[c] = "idle"
    /\ calls < MaxCalls
    /\ \E o \in OpsOf(c), r \in SetArgs :
         /\ call' = [call EXCEPT ![c] =
                [op |-> o,
                 arg |-> IF o = "set_last_result_for_test" THEN r ELSE DummyReport]]
         /\ hookUsed' = (hookUsed \/ o \in WriteOps)
         /\ clearUsed' = (clearUsed \/ o = "clear_last_result_for_test")
    /\ cpc' = [cpc EXCEPT ![c] = "lock"]
    /\ calls' = calls + 1
    /\ UNCHANGED <<cache, lock, poisoned, now, schedVars, tmp, ret, lastWrite,
                   testVars>>

\* let cache = LAST_RESULT.lock().unwrap(): a poisoned mutex makes unwrap panic,
\* and the guard inside the error is dropped at once.
CallerLock(c) ==
    /\ cpc[c] = "lock"
    /\ LockAvailable
    /\ IF poisoned
       THEN /\ cpc' = [cpc EXCEPT ![c] = "returned"]
            /\ ret' = [ret EXCEPT ![c] = RetPanic]
            /\ UNCHANGED lock
       ELSE /\ cpc' = [cpc EXCEPT ![c] =
                   IF call[c].op \in ReadOps THEN "read"
                   ELSE IF call[c].op = "set_last_result_for_test" THEN "write"
                   ELSE "clear"]
            /\ lock' = c
            /\ UNCHANGED ret
    /\ UNCHANGED <<cache, poisoned, now, schedVars, call, tmp, calls, hookUsed, clearUsed,
                   lastWrite, testVars>>

\* What each read function makes of the value it finds under the guard.
get_last_result(v) == IF v.some THEN RetSome(v.report) ELSE RetNone

\* A get_cached_iperf3_result that answers an empty store with a default
\* report instead of the error.
get_cached_or_default(v) == IF v.some THEN RetOk(v.report) ELSE RetOk(DummyReport)

get_cached_iperf3_result(v) == IF v.some THEN RetOk(v.report) ELSE RetErr

iperf3(v) ==
    IF v.some THEN RetHttp(HttpOk, SerializeReport(v.report))
    ELSE RetHttp(HttpServiceUnavailable, NotAvailableYet)

ReadResult(o, v) ==
    IF o = "get_last_result" THEN get_last_result(v)
    ELSE IF o = "get_cached_iperf3_result" THEN get_cached_iperf3_result(v)
    ELSE iperf3(v)

\* The guard a reader or writer gives up when its function returns.
Release(p) == IF lock = p THEN NoHolder ELSE lock

\* A read that takes the value out of the slot (Option::take).
AfterReadTaken(v) == CacheNone

\* The slot after a read: cache.as_ref() and &*cache borrow the value, which
\* stays where it is.
AfterRead(v) == v

\* The first half of a read: the discriminant and the report's start and
\* intervals. An empty cache is answered at once.
ReadFirst(c) ==
    /\ cpc[c] = "read"
    /\ IF cache.some
       THEN /\ tmp' = [tmp EXCEPT ![c] =
                   CacheSome(Report(cache.report.start, cache.report.intervals, 0), 0)]
            /\ cpc' = [cpc EXCEPT ![c] = "read2"]
            /\ UNCHANGED <<ret, lock>>
       ELSE /\ ret' = [ret EXCEPT ![c] = ReadResult(call[c].op, CacheNone)]
            /\ cpc' = [cpc EXCEPT ![c] = "returned"]
            /\ lock' = Release(c)
            /\ UNCHANGED tmp
    /\ UNCHANGED <<cache, poisoned, now, schedVars, call, calls, hookUsed, clearUsed,
                   lastWrite, testVars>>

\* The second half: the report's end; the function returns and drops the guard.
ReadSecond(c) ==
    /\ cpc[c] = "read2"
    /\ ret' = [ret EXCEPT ![c] =
           ReadResult(call[c].op,
               CacheSome(Report(tmp[c].report.start, tmp[c].report.intervals,
                                cache.report.end), 0))]
    /\ cpc' = [cpc EXCEPT ![c] = "returned"]
    /\ tmp' = [tmp EXCEPT ![c] = CacheNone]
    /\ cache' = AfterRead(cache)
    /\ lock' = Release(c)
    /\ UNCHANGED <<poisoned, now, schedVars, call, calls, hookUsed, clearUsed, lastWrite,
                   testVars>>

\* *cache = Some((result, Instant::now())), first half: the new value is built
\* (the clock is read) and the discriminant, start and intervals are stored.
SetFirst(c) ==
    /\ cpc[c] = "write"
    /\ tmp' = [tmp EXCEPT ![c] = CacheSome(call[c].arg, InstantNow)]
    /\ cache' = StoreFirst(cache, CacheSome(call[c].arg, InstantNow))
    /\ cpc' = [cpc EXCEPT ![c] = "write2"]
    /\ UNCHANGED <<lock, poisoned, now, schedVars, call, ret, calls, hookUsed, clearUsed, lastWrite,
                   testVars>>

\* Second half: end and the instant are stored; the function returns.
SetSecond(c) ==
    /\ cpc[c] = "write2"
    /\ cache' = StoreSecond(cache, tmp[c])
    /\ lastWrite' = Written(tmp[c], "set", lastWrite.by, c)
    /\ tmp' = [tmp EXCEPT ![c] = CacheNone]
    /\ ret' = [ret EXCEPT ![c] = RetUnit]
    /\ cpc' = [cpc EXCEPT ![c] = "returned"]
    /\ lock' = Release(c)
    /\ UNCHANGED <<poisoned, now, schedVars, call, calls, hookUsed, clearUsed,
                   testVars>>

\* A clear that stores a default report instead of None.
ClearedToDefault == CacheSome(DummyReport, 0)

\* The value clear_last_result_for_test stores.
Cleared == CacheNone

\* *cache = None; the function returns.
Clear(c) ==
    /\ cpc[c] = "clear"
    /\ cache' = Cleared
    /\ lastWrite' = Written(CacheNone, "clear", lastWrite.by, c)
    /\ ret' = [ret EXCEPT ![c] = RetUnit]
    /\ cpc' = [cpc EXCEPT ![c] = "returned"]
    /\ lock' = Release(c)
    /\ UNCHANGED <<poisoned, now, schedVars, call, tmp, calls, hookUsed, clearUsed,
                   testVars>>

\* The caller takes what the call returned and goes on.
Return(c) ==
    /\ cpc[c] = "returned"
    /\ cpc' = [cpc EXCEPT ![c] = "idle"]
    /\ call' = [call EXCEPT ![c] = NoCall]
    /\ ret' = [ret EXCEPT ![c] = RetPending]
    /\ UNCHANGED <<cache, lock, poisoned, now, schedVars, tmp, calls, hookUsed, clearUsed,
                   lastWrite, testVars>>

CallerStep(c) ==
    \/ Call(c)
    \/ CallerLock(c)
    \/ ReadFirst(c)
    \/ ReadSecond(c)
    \/ SetFirst(c)
    \/ SetSecond(c)
    \/ Clear(c)
    \/ Return(c)


(***************************************************************************)
(* RealIperf3Runner.                                                       *)
(***************************************************************************)
\* What becomes of the external process: it could not be started, or it ran
\* and exited with some status having printed some text.
ProcOutcomes ==
    { [spawned |-> FALSE, success |-> FALSE, stdout |-> RawGarbage] }
    \cup { [spawned |-> TRUE, success |-> FALSE, stdout |-> t] :
             t \in {RawGarbage, RawJson([start |-> 1000, intervals |-> 1, end |-> 7])} }
    \cup { [spawned |-> TRUE, success |-> TRUE, stdout |-> t] : t \in RawTexts }

\* A runner that does not look at the exit status.
run_iperf3_any_status(proc) ==
    IF ~proc.spawned THEN Err("Failed to run iperf3")
    ELSE Ok(proc.stdout)

\* RealIperf3Runner::run_iperf3
run_iperf3(proc) ==
    IF ~proc.spawned THEN Err("Failed to run iperf3")
    ELSE IF proc.success THEN Ok(proc.stdout)
    ELSE Err("iperf3 failed")

(***************************************************************************)
(* run_iperf3_and_cache_with_runner, one refresh cycle.                    *)
(***************************************************************************)
\* Where the scheduler goes when a cycle has returned: to time::interval after
\* the startup cycle, back to the ticker after every other.
AfterCycle == IF cycles = 1 THEN "interval" ELSE "tick"

\* A cycle that takes the guard before it invokes the runner.
CycleStartUnderLock ==
    /\ spc = "cycle"
    /\ cycles < MaxCycles
    /\ LockAvailable
    /\ lock' = Sched
    /\ cycles' = cycles + 1
    /\ cyc' = [NoCycle EXCEPT !.path = "invoking", !.started = now,
                              !.allShort = cyc.allShort]
    /\ spc' = "running"
    /\ UNCHANGED <<cache, poisoned, now, env, interval, deadline, lastParsed,
                   callerVars, lastWrite, testVars>>

\* The call at lines 311 and 316: the cycle starts and the runner is invoked.
\* No more than n cycles are followed.
CycleStartWithin(n) ==
    /\ spc = "cycle"
    /\ cycles < n
    /\ cycles' = cycles + 1
    /\ cyc' = [NoCycle EXCEPT !.path = "invoking", !.started = now,
                              !.allShort = cyc.allShort]
    /\ spc' = "running"
    /\ UNCHANGED <<cache, lock, poisoned, now, env, interval, deadline, lastParsed,
                   callerVars, lastWrite, testVars>>

CycleStart == CycleStartWithin(MaxCycles)

\* The cycle's record once the function has returned at time t.
CycleEnded(c, t) ==
    [c EXCEPT !.ended = t, !.allShort = c.allShort /\ t - c.started < interval]

\* A failure path that drops the cached value.
FailureDrops(v) == CacheNone

\* The store as a failed cycle leaves it.
FailureLeaves(v) == v

\* runner.run_iperf3(..).await returns, and its output is parsed.
RunnerReturns ==
    /\ spc = "running"
    /\ \E proc \in ProcOutcomes :
         LET r == run_iperf3(proc)
             p == IF r.ok THEN ParseReport(r.val) ELSE Err("")
         IN IF ~r.ok
            THEN /\ spc' = "log_invoke_err"
                 /\ cyc' = [cyc EXCEPT !.path = "invoke_failed",
                                       !.proc = proc, !.res = r]
                 /\ UNCHANGED lastParsed
            ELSE IF ~p.ok
            THEN /\ spc' = "log_parse_err"
                 /\ cyc' = [cyc EXCEPT !.path = "parse_failed",
                                       !.proc = proc, !.res = r]
                 /\ UNCHANGED lastParsed
            ELSE /\ spc' = "lock"
                 /\ cyc' = [cyc EXCEPT !.path = "parsed", !.data = p.val,
                                       !.proc = proc, !.res = r]
                 /\ lastParsed' = CacheSome(p.val, 0)
    /\ UNCHANGED <<cache, lock, poisoned, now, env, interval, deadline, cycles,
                   callerVars, lastWrite, testVars>>

\* The cycle's record once the runner's result has been matched and dropped.
Matched(c) == [c EXCEPT !.proc = NoProc, !.res = NoResult]

\* eprintln!(..) on either failure path: the cycle returns, or the write to
\* stderr fails and eprintln! panics.
LogFailure ==
    /\ spc \in {"log_invoke_err", "log_parse_err"}
    /\ \E written \in BOOLEAN :
         /\ spc' = IF written THEN AfterCycle ELSE "panicked"
         /\ cyc' = IF written
                   THEN CycleEnded([Matched(cyc) EXCEPT !.logged = cyc.logged + 1], now)
                   ELSE Matched(cyc)
    /\ cache' = FailureLeaves(cache)
    /\ UNCHANGED <<lock, poisoned, now, env, interval, deadline, cycles, lastParsed,
                   callerVars, lastWrite, testVars>>

\* let mut cache = LAST_RESULT.lock().unwrap()
SchedLock ==
    /\ spc = "lock"
    /\ LockAvailable
    /\ IF poisoned
       THEN /\ spc' = "panicked"
            /\ UNCHANGED lock
       ELSE /\ spc' = "write"
            /\ lock' = Sched
    /\ cyc' = Matched(cyc)
    /\ UNCHANGED <<cache, poisoned, now, env, interval, deadline, cycles,
                   lastParsed, callerVars, lastWrite, testVars>>

\* A commit that builds the result without the parsed end.
CommittedWithoutEnd(data) == Report(data.start, data.intervals, 0)

\* The report a successful cycle commits.
Committed(data) == Report(data.start, data.intervals, data.end)

\* *cache = Some((result.clone(), Instant::now())), first half.
CommitFirst ==
    /\ spc = "write"
    /\ cyc' = [cyc EXCEPT !.at = InstantNow, !.data = Committed(cyc.data)]
    /\ cache' = StoreFirst(cache, CacheSome(Committed(cyc.data), InstantNow))
    /\ spc' = "write2"
    /\ UNCHANGED <<lock, poisoned, now, env, interval, deadline, cycles, lastParsed,
                   callerVars, lastWrite, testVars>>

\* Second half: end and the instant.
CommitSecond ==
    /\ spc = "write2"
    /\ cache' = StoreSecond(cache, CacheSome(cyc.data, cyc.at))
    /\ lastWrite' = Written(CacheSome(cyc.data, cyc.at), "commit", lastWrite.by, Sched)
    /\ cyc' = [cyc EXCEPT !.writes = cyc.writes + 1, !.path = "committed"]
    /\ spc' = "println"
    /\ UNCHANGED <<lock, poisoned, now, env, interval, deadline, cycles, lastParsed,
                   callerVars, testVars>>

\* println!("Iperf3 result updated at {}", ..) with the guard still alive: the
\* arm ends and the guard is dropped, or the write to stdout fails, println!
\* panics and the guard, dropped while unwinding, poisons the mutex.
LogUpdated ==
    /\ spc = "println"
    /\ \E written \in BOOLEAN :
         /\ spc' = IF written THEN AfterCycle ELSE "panicked"
         /\ poisoned' = (poisoned \/ ~written)
         /\ cyc' = IF written
                   THEN CycleEnded([cyc EXCEPT !.data = DummyReport, !.at = 0], now)
                   ELSE [cyc EXCEPT !.data = DummyReport, !.at = 0]
    /\ lock' = Release(Sched)
    /\ UNCHANGED <<cache, now, env, interval, deadline, cycles, lastParsed,
                   callerVars, lastWrite, testVars>>

(***************************************************************************)
(* spawn_iperf3_scheduler.                                                 *)
(***************************************************************************)
\* A scheduler that makes its ticker before the startup cycle.
SchedStartTicksFirst ==
    /\ spc = "start"
    /\ LET d == min_frequency_duration(env.var, env.checks)
       IN IF d.ok
          THEN /\ interval' = d.val
               /\ spc' = "interval"
          ELSE /\ spc' = "panicked"
               /\ UNCHANGED interval
    /\ env' = EnvRead
    /\ UNCHANGED <<cache, lock, poisoned, now, deadline, cycles, cyc, lastParsed,
                   callerVars, lastWrite, testVars>>

\* let interval = min_frequency_duration(); a panic ends the task. The
\* variable is read here and never again.
SchedStart ==
    /\ spc = "start"
    /\ LET d == min_frequency_duration(env.var, env.checks)
       IN IF d.ok
          THEN /\ interval' = d.val
               /\ spc' = "cycle"
          ELSE /\ spc' = "panicked"
               /\ UNCHANGED interval
    /\ env' = EnvRead
    /\ UNCHANGED <<cache, lock, poisoned, now, deadline, cycles, cyc, lastParsed,
                   callerVars, lastWrite, testVars>>

\* let mut ticker = time::interval(interval): tokio panics on a zero period;
\* the first tick is due at once.
MakeInterval ==
    /\ spc = "interval"
    /\ IF interval > 0
       THEN /\ spc' = "tick"
            /\ deadline' = now
       ELSE /\ spc' = "panicked"
            /\ UNCHANGED deadline
    /\ UNCHANGED <<cache, lock, poisoned, now, env, interval, cycles, cyc, lastParsed,
                   callerVars, lastWrite, testVars>>

\* ticker.tick().await completes once the deadline is reached; the next
\* deadline is one period after this one (MissedTickBehavior::Burst, tokio's
\* default). No tick is followed once n cycles have started.
TickWithin(n) ==
    /\ spc = "tick"
    /\ now >= deadline
    /\ cycles < n
    /\ deadline' = deadline + interval
    /\ spc' = "cycle"
    /\ UNCHANGED <<cache, lock, poisoned, now, env, interval, cycles, cyc, lastParsed,
                   callerVars, lastWrite, testVars>>

\* A loop that does not await the cycle: the tick completes while the cycle
\* is still running.
TickWhileRunning ==
    /\ spc \in {"tick", "running"}
    /\ now >= deadline
    /\ cycles < MaxCycles
    /\ deadline' = deadline + interval
    /\ spc' = "cycle"
    /\ UNCHANGED <<cache, lock, poisoned, now, env, interval, cycles, cyc, lastParsed,
                   callerVars, lastWrite, testVars>>

Tick == TickWithin(MaxCycles)

SchedStep ==
    \/ SchedStart
    \/ CycleStart
    \/ RunnerReturns
    \/ LogFailure
    \/ SchedLock
    \/ CommitFirst
    \/ CommitSecond
    \/ LogUpdated
    \/ MakeInterval
    \/ Tick

\* Time passes while the scheduler task awaits the runner or a tick that is
\* not yet due, or has ended; the task resumes as soon as what it awaits is
\* ready, and the steps between two awaits are taken to last no time. The
\* clock is followed for n steps.
AdvanceWithin(n) ==
    /\ \/ spc \in {"running", "panicked"}
       \/ spc = "tick" /\ now < deadline
    /\ now < n * ClockStep
    /\ now' = now + ClockStep
    /\ UNCHANGED <<cache, lock, poisoned, schedVars, callerVars, lastWrite, testVars>>

Advance == AdvanceWithin(MaxClock)

Next ==
    \/ SchedStep
    \/ \E c \in Callers : CallerStep(c)
    \/ Advance

Spec == Init /\ [][Next]_vars


\* The scheduling the runtime guarantees: a thread that can take a step of a
\* call it has entered takes it, and the scheduler task, once past the
\* runner, runs on to the end of the cycle. Nothing makes the external
\* process return, the clock is not forced and no caller has to call.
CallProgress(c) ==
    \/ CallerLock(c)
    \/ ReadFirst(c)
    \/ ReadSecond(c)
    \/ SetFirst(c)
    \/ SetSecond(c)
    \/ Clear(c)
    \/ Return(c)

CommitProgress == SchedLock \/ CommitFirst \/ CommitSecond \/ LogUpdated

FairSpec ==
    /\ Spec
    /\ \A c \in Callers : WF_vars(CallProgress(c))
    /\ WF_vars(CommitProgress)

\* The scheduler task on its own, with no caller, followed over more cycles
\* and a longer clock: what its ticker does depends on no caller's step.
TaskStep ==
    \/ SchedStart
    \/ CycleStartWithin(MaxTaskCycles)
    \/ RunnerReturns
    \/ LogFailure
    \/ SchedLock
    \/ CommitFirst
    \/ CommitSecond
    \/ LogUpdated
    \/ MakeInterval
    \/ TickWithin(MaxTaskCycles)

TaskNext == TaskStep \/ AdvanceWithin(MaxTaskClock)

TaskSpec == Init /\ [][TaskNext]_vars

(***************************************************************************)
(* tests/api_tests.rs: the three tests on the global cache, run by the     *)
(* test harness. No scheduler is spawned in the tests.                     *)
(***************************************************************************)
\* The tests annotated #[serial].
SerialTests == {NoCacheTest, CachedTest}

Step(o, a) == [op |-> o, arg |-> a]

\* The library calls each test body makes, in order.
Program(t) ==
    IF t = NoCacheTest
    THEN << Step("clear_last_result_for_test", DummyReport),
            Step("iperf3", DummyReport) >>
    ELSE IF t = CachedTest
    THEN << Step("set_last_result_for_test", DummyReport),
            Step("iperf3", DummyReport),
            Step("clear_last_result_for_test", DummyReport) >>
    ELSE << Step("clear_last_result_for_test", DummyReport),
            Step("get_last_result", DummyReport),
            Step("set_last_result_for_test", DummyReport),
            Step("get_last_result", DummyReport),
            Step("clear_last_result_for_test", DummyReport),
            Step("get_last_result", DummyReport) >>

\* The assertions (and unwraps) a test makes on what call i returned.
Asserts(t, i, r) ==
    IF r.kind = "panic" THEN FALSE
    ELSE IF t = NoCacheTest /\ i = Len(Program(NoCacheTest))
    THEN r.status = HttpServiceUnavailable /\ r.body = NotAvailableYet
    ELSE IF t = CachedTest /\ Program(CachedTest)[i].op = "iperf3"
    THEN /\ r.status = HttpOk
         /\ ParseReport(r.body).ok
         /\ ParseReport(r.body).val.start = DummyReport.start
         /\ ParseReport(r.body).val.end = DummyReport.end
    ELSE IF t = HelpersTest /\ Program(HelpersTest)[i].op = "get_last_result"
    THEN IF Program(HelpersTest)[i - 1].op = "set_last_result_for_test"
         THEN r.kind = "Some" /\ r.report.start = DummyReport.start
         ELSE r.kind = "None"
    ELSE TRUE

\* The harness starts a test on its thread; #[serial] takes serial_test's
\* lock first and blocks while another serial test holds it.
TestStart(t) ==
    /\ tpc[t] = 0
    /\ t \in SerialTests => serial = NoHolder
    /\ serial' = IF t \in SerialTests THEN t ELSE serial
    /\ tpc' = [tpc EXCEPT ![t] = tpc[t] + 1]
    /\ verdict' = [verdict EXCEPT ![t] = "running"]
    /\ UNCHANGED <<cache, lock, poisoned, now, schedVars, callerVars, lastWrite>>

\* The test makes the next call of its body.
TestCall(t) ==
    /\ verdict[t] = "running"
    /\ cpc[t] = "idle"
    /\ tpc[t] \in 1..Len(Program(t))
    /\ call' = [call EXCEPT ![t] = Program(t)[tpc[t]]]
    /\ cpc' = [cpc EXCEPT ![t] = "lock"]
    /\ UNCHANGED <<cache, lock, poisoned, now, schedVars, tmp, ret, calls, hookUsed,
                   clearUsed, lastWrite, testVars>>

\* The serial lock once test t has dropped its guard.
SerialReleased(t) == IF serial = t THEN NoHolder ELSE serial

\* The call has returned: the test asserts on the value and goes on, or an
\* assertion fails, the test panics and its serial guard is dropped.
TestAssert(t) ==
    /\ verdict[t] = "running"
    /\ cpc[t] = "returned"
    /\ IF Asserts(t, tpc[t], ret[t])
       THEN /\ tpc' = [tpc EXCEPT ![t] = tpc[t] + 1]
            /\ UNCHANGED <<verdict, serial>>
       ELSE /\ verdict' = [verdict EXCEPT ![t] = "failed"]
            /\ serial' = SerialReleased(t)
            /\ UNCHANGED tpc
    /\ cpc' = [cpc EXCEPT ![t] = "idle"]
    /\ call' = [call EXCEPT ![t] = NoCall]
    /\ ret' = [ret EXCEPT ![t] = RetPending]
    /\ UNCHANGED <<cache, lock, poisoned, now, schedVars, tmp, calls, hookUsed,
                   clearUsed, lastWrite>>

\* The test body ends: the test has passed and its serial guard is dropped.
TestEnd(t) ==
    /\ verdict[t] = "running"
    /\ cpc[t] = "idle"
    /\ tpc[t] = Len(Program(t)) + 1
    /\ verdict' = [verdict EXCEPT ![t] = "passed"]
    /\ serial' = SerialReleased(t)
    /\ UNCHANGED <<cache, lock, poisoned, now, schedVars, callerVars, lastWrite, tpc>>

TestStep(t) ==
    \/ TestStart(t)
    \/ TestCall(t)
    \/ CallerLock(t)
    \/ ReadFirst(t)
    \/ ReadSecond(t)
    \/ SetFirst(t)
    \/ SetSecond(t)
    \/ Clear(t)
    \/ TestAssert(t)
    \/ TestEnd(t)

\* cargo test: a test build, with overflow checks, in which nothing reads
\* INTERVAL_MINUTES; the harness runs the tests on concurrent threads.
TestInit == InitOf(Tests, Tests) /\ env = [var |-> EnvAbsent, checks |-> TRUE]

TestNext == \E t \in Tests : TestStep(t)

TestSpec == TestInit /\ [][TestNext]_vars

(***************************************************************************)
(* Properties.                                                             *)
(***************************************************************************)
FailedPaths == {"invoke_failed", "parse_failed"}

\* The scheduler is between two cycles: the last one has returned.
CycleReturned == spc \in {"interval", "tick", "cycle"} /\ cycles >= 1

\* What get_last_result answers for the last cycle that ran and parsed.
LastParsedAnswer == IF lastParsed.some THEN RetSome(lastParsed.report) ELSE RetNone

\* A step in which caller c's call returns.
Returns(c) == cpc[c] # "returned" /\ cpc'[c] = "returned"

\* A step of the scheduler on a failure path of a cycle.
FailureStep ==
    /\ spc \in {"running", "log_invoke_err", "log_parse_err"}
    /\ spc' \in {"log_invoke_err", "log_parse_err", "interval", "tick", "panicked"}
    /\ spc' # spc

\* C1 (failure isolation): no step of a cycle whose runner fails or whose
\* output does not parse changes the store, and once such a cycle has
\* returned (no hook having been called) get_last_result answers with the
\* report of the last cycle that succeeded, or None if none has.
C1_FailureIsolation ==
    /\ [][FailureStep => cache' = cache]_vars
    /\ []((CycleReturned /\ cyc.path \in FailedPaths /\ ~hookUsed)
            => get_last_result(cache) = LastParsedAnswer)

\* C1 witness: cycle 1 committed, cycle 2 failed and returned, and the store
\* still holds cycle 1's report.
C1_Witness ==
    /\ cycles = 2
    /\ spc = "tick"
    /\ cyc.path = "invoke_failed"
    /\ ~hookUsed
    /\ cache.some
    /\ cache.report = lastParsed.report

\* C2 (commit on success): with no hook called, outside the commit itself the
\* store holds exactly the report parsed by the most recent cycle whose
\* runner call and parse both succeeded, and is empty if there is none; that
\* is what get_last_result reads from it.
C2_CommitOnSuccess ==
    (~hookUsed /\ spc \notin {"lock", "write", "write2"})
        => /\ cache.some = lastParsed.some
           /\ cache.report = lastParsed.report
           /\ get_last_result(cache) = LastParsedAnswer

\* C2 witness: a second successful cycle has replaced the first, and the
\* store holds the report with timesecs = 1000 parsed from its output.
C2_Witness ==
    /\ ~hookUsed
    /\ cycles = 2
    /\ CycleReturned
    /\ cyc.path = "committed"
    /\ lastWrite.prev = "commit"
    /\ get_last_result(cache) = RetSome(Report(1000, 1, 7))

\* C3 (read endpoint tri-state), as claimed: whenever a GET /iperf3 returns,
\* it returns 200 with the cached report as JSON if the store is populated
\* and 503 with the "not available yet" body otherwise, never a panic.
C3_ReadEndpointTriState ==
    [][(Returns(Reader) /\ call[Reader].op = "iperf3")
         => ret'[Reader] = IF cache.some
                           THEN RetHttp(HttpOk, SerializeReport(cache.report))
                           ELSE RetHttp(HttpServiceUnavailable, NotAvailableYet)]_vars

\* C4 (no-data state): clear leaves the store empty; an empty store becomes
\* populated only by a set or a commit; and every read that returns while
\* the last completed write is a clear answers None (Err, 503).
C4_NoDataAfterClear ==
    [][/\ (cpc[Hook] = "clear" /\ Returns(Hook)) => ~cache'.some
       /\ (~cache.some /\ cache'.some) => (cpc[Hook] = "write" \/ spc = "write")
       /\ (Returns(Reader) /\ lastWrite.by = "clear")
            => ret'[Reader] = ReadResult(call[Reader].op, CacheNone)]_vars

\* C4 witness: a cycle committed a report, clear ran after it, and a read
\* then answered None.
C4_Witness ==
    /\ lastWrite.by = "clear"
    /\ lastWrite.prev = "commit"
    /\ cpc[Reader] = "returned"
    /\ call[Reader].op = "get_last_result"
    /\ ret[Reader] = RetNone

\* set(A) then set(B) with no write between them.
TwoSets == lastWrite.by = "set" /\ lastWrite.prev = "set"

Whole(r) == r \in WholeReports

\* C6 (no torn reads): every value a read returns is a report some writer
\* stored whole, or the empty answer; and whenever no one holds the mutex the
\* store is exactly the last completed write: empty, or that one (report,
\* instant) pair.
C6_NoTornReads ==
    /\ \A c \in Callers :
         cpc[c] = "returned" =>
            /\ ret[c].kind \in {"Some", "Ok"} => Whole(ret[c].report)
            /\ (ret[c].kind = "http" /\ ret[c].status = HttpOk)
                 => /\ ParseReport(ret[c].body).ok
                    /\ Whole(ParseReport(ret[c].body).val)
    /\ lock = NoHolder
         => cache = [some |-> lastWrite.some, report |-> lastWrite.report,
                     at |-> lastWrite.at]

\* C6 witness: a read returned a whole report while the scheduler, having
\* asked for the mutex in the meantime, is in the middle of its commit.
C6_Witness ==
    /\ cpc[Reader] = "returned"
    /\ ret[Reader].kind = "Some"
    /\ ret[Reader].report = Report(5, 5, 5)
    /\ spc = "write2"
    /\ cache.report = Report(1000, 1, 5)

\* C7 (startup eagerness), as claimed: if the first invocation succeeds, the
\* store is populated before one interval has elapsed since startup (the
\* clock starts at 0). Stated for positive intervals only.
C7_PopulatedWithinInterval ==
    (cycles = 1 /\ spc = "println" /\ interval > 0) => cyc.at < interval

\* C7 as amended: the scheduler makes its ticker and waits on a tick only
\* after the startup cycle has returned, and a startup cycle that succeeds
\* has populated the store before the ticker exists.
C7_StartupEagerness ==
    /\ spc \in {"interval", "tick"}
         => cycles >= 1 /\ cyc.path \in FailedPaths \cup {"committed"}
    /\ (cycles = 1 /\ spc = "println")
         => cache = CacheSome(cyc.data, cyc.at) /\ deadline = 0

\* C7 witness: the scheduler waits on its first tick, the startup cycle has
\* committed and the store is populated at time 0.
C7_Witness ==
    /\ spc = "tick"
    /\ cycles = 1
    /\ cyc.path = "committed"
    /\ now = 0
    /\ cache.some
    /\ ~hookUsed

\* C8 (positive interval), as claimed: the period handed to time::interval is
\* strictly greater than zero.
C8_PositiveInterval == spc = "interval" => interval > 0

\* C9 (scheduler resilience), as claimed: a failed cycle that has been logged
\* is never the scheduler's last, the task does not end after it.
C9_FailureNeverEndsScheduler ==
    ~(spc = "panicked" /\ cycles >= 1 /\ cyc.path \in FailedPaths /\ cyc.logged = 1)

\* C10 (runner outside the lock): the scheduler holds the mutex only between
\* taking it for the commit and the end of that arm, never while the runner
\* is outstanding or a tick is awaited; and every call that has been entered
\* returns, even if the runner never does.
C10_RunnerOutsideLock ==
    /\ [](lock = Sched => spc \in {"write", "write2", "println"})
    /\ \A c \in Callers : (cpc[c] = "lock") ~> (cpc[c] = "returned")

\* C10 witness: a read has returned the cached report while the second
\* cycle's runner is outstanding.
C10_Witness ==
    /\ spc = "running"
    /\ cycles = 2
    /\ lock = NoHolder
    /\ cpc[Reader] = "returned"
    /\ ret[Reader].kind = "Some"

\* C11 (total operations), as claimed: in every reachable state, whatever a
\* refresh cycle or a read has done before, no call of get, set, clear or the
\* read endpoint ends in a panic.
C11_OperationsTotal == \A c \in Callers : ret[c].kind # "panic"

\* The value the last completed write left in the store.
LastWritten == [some |-> lastWrite.some, report |-> lastWrite.report, at |-> lastWrite.at]

\* C12 (unavailable only before the first success), as claimed: while clear
\* has never been called, a read that returns answers None (Err, 503) exactly
\* when no commit and no set has completed yet and the stored report
\* afterwards, and the store, once written, is never empty again.
C12_UnavailableOnlyBeforeFirstSuccess ==
    /\ [][(Returns(Reader) /\ ~clearUsed)
            => ret'[Reader] = ReadResult(call[Reader].op,
                                  IF lastWrite.by = "init" THEN CacheNone
                                  ELSE LastWritten)]_vars
    /\ []((~clearUsed /\ lastWrite.by # "init" /\ lock = NoHolder) => cache.some)

\* A step in which a cycle's commit completes, the last completed write being
\* the commit of an earlier cycle.
CommitAfterCommit == spc = "write2" /\ spc' = "println" /\ lastWrite.by = "commit"

TickCompletes == spc = "tick" /\ spc' = "cycle"

\* C14 (no tick bursting after an overrun), as claimed: when a tick completes
\* that fell due while the last cycle was still running, it is the only
\* pending one, and the tick after it lies in the future.
C14_NoTickBursting ==
    [][(TickCompletes /\ cyc.ended > deadline) => deadline' > now]_vars

\* A step in which a cycle starts.
CycleStarts == spc = "cycle" /\ spc' = "running"

\* C15 (fixed-period cadence), as claimed: when every cycle so far took less
\* than one interval, each cycle after the startup cycle starts exactly one
\* interval after the cycle before it started.
C15_FixedPeriodCadence ==
    [][(CycleStarts /\ cycles >= 1 /\ cyc.allShort)
         => now = cyc.started + interval]_vars

\* The cycle last started has not returned.
InFlight == cyc.path # "idle" /\ cyc.ended = NoInstant

\* C16 (single in-flight cycle): a cycle starts only when every cycle before
\* it has returned and the scheduler holds no guard; the scheduler is inside
\* run_iperf3_and_cache_with_runner exactly while a cycle is in flight; and
\* the two stores of a commit are made under one hold of the mutex by the
\* one cycle in flight, which writes the store at most once.
C16_SingleInFlightCycle ==
    /\ [][CycleStarts => /\ ~InFlight
                         /\ lock # Sched
                         /\ cycles' = cycles + 1
                         /\ cyc'.writes = 0]_vars
    /\ [](spc \in {"running", "log_invoke_err", "log_parse_err", "lock", "write",
                   "write2", "println"} => InFlight)
    /\ [](spc \in {"write2", "println"} => lock = Sched)
    /\ [](cyc.writes <= 1 /\ (spc \in {"write", "write2"} => cyc.writes = 0))
    /\ [][(cache' # cache /\ spc' # spc)
            => spc \in {"write", "write2"} /\ lock = Sched /\ InFlight]_vars

\* C16 witness: the second cycle is in the middle of its commit, the startup
\* cycle having returned after its own.
C16_Witness ==
    /\ cycles = 2
    /\ spc = "write2"
    /\ lock = Sched
    /\ InFlight
    /\ lastWrite.by = "commit"
    /\ cache.report # lastWrite.report

\* C17 (per-cycle state machine), as claimed: no cycle ends in a panic; a
\* cycle that has returned followed exactly one of the three paths, wrote
\* the store once if it committed and not at all if it failed, and logged a
\* failure if and only if it failed.
C17_PerCycleStateMachine ==
    /\ spc = "panicked" => ~InFlight
    /\ cyc.ended # NoInstant
         => /\ cyc.path \in FailedPaths \cup {"committed"}
            /\ cyc.writes = (IF cyc.path = "committed" THEN 1 ELSE 0)
            /\ cyc.logged = (IF cyc.path \in FailedPaths THEN 1 ELSE 0)

\* The step in which the scheduler calls min_frequency_duration.
IntervalRead == spc = "start" /\ spc' # "start"

\* C18 (interval value), as claimed: for every INTERVAL_MINUTES that parses
\* as an unsigned word n the call returns n minutes, n * 60 seconds, with no
\* wrap-around and no failure, and 10 minutes when the variable is absent or
\* does not parse.
C18_IntervalValue ==
    [][IntervalRead
         => /\ spc' # "panicked"
            /\ interval' = Minutes(env.var) * SecsPerMinute]_vars

\* The runner has just returned and its result is about to be matched.
RunnerReturned == spc \in {"log_invoke_err", "log_parse_err", "lock"}

\* C19 (runner contract): the runner's result is Ok with the raw stdout text
\* exactly when the process was started and exited with success; a process
\* that could not be started, or that exited non-zero whatever it printed,
\* gives Err with the message of that case; and the step in which the runner
\* returns leaves the store, its mutex and its poison flag as they were.
C19_RunnerContract ==
    /\ [](RunnerReturned
            => /\ cyc.res.ok <=> (cyc.proc.spawned /\ cyc.proc.success)
               /\ cyc.res.ok => cyc.res.val = cyc.proc.stdout
               /\ ~cyc.res.ok
                    => cyc.res.msg = (IF cyc.proc.spawned THEN "iperf3 failed"
                                      ELSE "Failed to run iperf3"))
    /\ [][(spc = "running" /\ spc' # spc)
            => /\ cache' = cache
               /\ lock' = lock
               /\ poisoned' = poisoned
               /\ lastWrite' = lastWrite]_vars
    /\ [](spc = "running" => lock # Sched)

\* C19 witness: in the second cycle the process ran, printed a well-formed
\* report and exited non-zero; the runner returned Err and the store still
\* holds the startup cycle's report.
C19_Witness ==
    /\ cycles = 2
    /\ spc = "log_invoke_err"
    /\ cyc.proc.spawned
    /\ ~cyc.proc.success
    /\ ParseReport(cyc.proc.stdout).ok
    /\ cyc.res = Err("iperf3 failed")
    /\ cache.some
    /\ lastWrite.by = "commit"

\* A step of the reader inside a call: taking the mutex, reading, returning.
ReaderStep == cpc[Reader] \in {"lock", "read", "read2"} /\ cpc'[Reader] # cpc[Reader]

\* C20 (reads leave the store unchanged): no step of a read changes the
\* cached report, its capture time or the record of the last write; every
\* read that returns a value returns what the last completed write stored,
\* so all reads between two writes return the same report; and a value a
\* caller holds is not changed by any later step of anyone else.
C20_ReadsLeaveStoreUnchanged ==
    /\ [][ReaderStep => /\ cache' = cache
                        /\ lastWrite' = lastWrite
                        /\ poisoned' = poisoned]_vars
    /\ [][(Returns(Reader) /\ ret'[Reader].kind # "panic")
            => ret'[Reader] = ReadResult(call[Reader].op, LastWritten)]_vars
    /\ [][(cpc[Reader] = "returned" /\ cpc'[Reader] = "returned")
            => ret'[Reader] = ret[Reader]]_vars
    /\ [](lock = NoHolder => cache = LastWritten)

\* C20 witness: a caller holds the report a read returned, and a cycle has
\* since committed another report to the store.
C20_Witness ==
    /\ cpc[Reader] = "returned"
    /\ call[Reader].op = "get_cached_iperf3_result"
    /\ ret[Reader] = RetOk(Report(5, 5, 5))
    /\ lock = NoHolder
    /\ lastWrite.by = "commit"
    /\ lastWrite.prev = "set"
    /\ cache.report = Report(2000, 2, 9)

\* C21 (the three read paths agree): evaluated on the same store, whatever
\* it holds, get_last_result answers Some(r) exactly when
\* get_cached_iperf3_result answers Ok(r) and exactly when the handler
\* answers 200 with a body that parses back to r, and None exactly when the
\* other two answer Err with the "not available yet" text and 503 with that
\* text; and what a read returns is its function applied to the store as it
\* is when the read returns.
C21_ReadPathsAgree ==
    /\ [](LET g == get_last_result(cache)
              c == get_cached_iperf3_result(cache)
              h == iperf3(cache)
          IN /\ g.kind \in {"Some", "None"}
             /\ g.kind = "Some" <=> c = RetOk(g.report)
             /\ g.kind = "Some" <=> (/\ h.kind = "http"
                                     /\ h.status = HttpOk
                                     /\ ParseReport(h.body) = Ok(g.report))
             /\ g.kind = "None" <=> (c.kind = "Err" /\ c.body = NotAvailableYet)
             /\ g.kind = "None" <=> h = RetHttp(HttpServiceUnavailable, NotAvailableYet))
    /\ [][(Returns(Reader) /\ ret'[Reader].kind # "panic")
            => ret'[Reader] = ReadResult(call[Reader].op, cache)]_vars

\* C21 witness: the handler has answered 200 with the report a cycle
\* committed, the store is unchanged since, and the other two paths give the
\* same report on it.
C21_Witness ==
    /\ cpc[Reader] = "returned"
    /\ call[Reader].op = "iperf3"
    /\ ret[Reader].status = HttpOk
    /\ lock = NoHolder
    /\ lastWrite.by = "commit"
    /\ ParseReport(ret[Reader].body) = Ok(cache.report)
    /\ get_last_result(cache) = RetSome(Report(2000, 2, 9))
    /\ get_cached_iperf3_result(cache) = RetOk(Report(2000, 2, 9))

\* A test has started and has neither passed nor failed.
InProgress(t) == verdict[t] = "running"

\* C22 (test isolation on the global cache), as claimed: the three tests run
\* one at a time, and whenever a test reads the cache for an assertion the
\* last write to the cache is that test's own.
C22_TestIsolation ==
    /\ [](Cardinality({t \in Tests : InProgress(t)}) <= 1)
    /\ [][\A t \in Tests :
            (Returns(t) /\ call[t].op \in ReadOps) => lastWrite.thread = t]_vars


====
